---- MODULE Spec2Model ----
(***************************************************************************)
(* The OpenSSL tracer's BPF probe handlers                                 *)
(* (openssl-tracer/openssl_tracer_bpf_funcs.c): three correlation maps     *)
(* keyed by the running thread's pid_tgid, two per-CPU scratch arrays, the *)
(* perf output tls_events, and the six probe functions.                    *)
(*                                                                         *)
(* Representation of machine values:                                       *)
(*  - a pid_tgid is the pair <<upper 32 bits, lower 32 bits>>;             *)
(*  - a 64-bit register or size_t word is four 16-bit limbs, most          *)
(*    significant first, so that the (int) casts of the source can be      *)
(*    computed on values beyond 2^31;                                      *)
(*  - a user-space pointer is an abstract address (an integer);            *)
(*  - an event payload (char data[MAX_DATA_SIZE]) is a sequence of runs    *)
(*    [src, n]: n consecutive bytes copied from address src on (src = -1:  *)
(*    n zero bytes); the runs of a payload always add up to MAX_DATA_SIZE. *)
(***************************************************************************)
EXTENDS Integers, Sequences, FiniteSets, TLC

VARIABLES
  active_ssl_read_args_map,      \* BPF_HASH: pid_tgid -> buffer pointer
  active_ssl_write_args_map,     \* BPF_HASH: pid_tgid -> buffer pointer
  active_ssl_readex_buf_len_map, \* BPF_HASH: pid_tgid -> struct buffer
  data_buffer_heap,              \* BPF_PERCPU_ARRAY: cpu -> struct ssl_data_event_t
  args_buffer_heap,              \* BPF_PERCPU_ARRAY: cpu -> struct buffer
  tls_events,                    \* BPF_PERF_OUTPUT: records not yet read by the consumer
  ktime,                         \* the clock bpf_ktime_get_ns reads
  last,                          \* the most recent probe invocation and what it did
  armed,                         \* observer: <<shape, pid_tgid>> -> arguments of the call in flight
  nSuccess,                      \* observer: pid_tgid -> returns that indicated success
  nPublished,                    \* observer: pid_tgid -> events handed to tls_events
  starved,                       \* observer: pid_tgid -> a capture was dropped for lack of room
  track,                         \* observer: <<shape, pid_tgid>> -> entries since the last return
  crowded                        \* observer: shape -> more calls were in flight than the map holds

progVars == <<active_ssl_read_args_map, active_ssl_write_args_map,
              active_ssl_readex_buf_len_map, data_buffer_heap, args_buffer_heap,
              tls_events>>
countVars == <<nSuccess, nPublished, starved>>
vars == <<active_ssl_read_args_map, active_ssl_write_args_map,
          active_ssl_readex_buf_len_map, data_buffer_heap, args_buffer_heap,
          tls_events, ktime, last, armed, nSuccess, nPublished, starved,
          track, crowded>>

(***************************************************************************)
(* Program constants and model bounds                                      *)
(***************************************************************************)
MAX_DATA_SIZE == 4096
TRACE_PID == 7
kSSLRead == "kSSLRead"
kSSLWrite == "kSSLWrite"

\* Capacity of each BPF_HASH (scaled down) and of the perf buffer, in records.
MapCap == 2
ChanCap == 1
\* Probe invocations explored per behaviour, one bound per specification.
MaxCalls == 4
MaxCallsPaired == 6
MaxCallsTwo == 4
MaxCallsData == 3
MaxCallsReturns == 4
\* Enough invocations to fill a map, be refused and return.
MaxCallsFull == MapCap + 2

(***************************************************************************)
(* Machine arithmetic                                                      *)
(***************************************************************************)
Hi32(id) == id[1]
Lo32(id) == id[2]

\* (int) of a 64-bit word: its low 32 bits read as two's complement.
Int32Of(w) ==
  IF w[3] >= 32768 THEN (w[3] - 65536) * 65536 + w[4] ELSE w[3] * 65536 + w[4]

\* The 64-bit word of a small non-negative integer (below 2^31).
WordOf(x) == <<0, 0, x \div 65536, x % 65536>>

\* x & m for a two's complement x and a mask 0 <= m < 2^bits.
RECURSIVE AndBits(_, _, _)
AndBits(x, m, bits) ==
  IF bits = 0 THEN 0
  ELSE 2 * AndBits(x \div 2, m \div 2, bits - 1) + ((x % 2) * (m % 2))
BitAnd(x, m) == AndBits(x, m, 31)

\* Unsigned comparison and minimum of a 64-bit word against a small bound.
WordBelow(w, bound) == w[1] = 0 /\ w[2] = 0 /\ w[3] = 0 /\ w[4] < bound
MinWord(w, bound) == IF WordBelow(w, bound) THEN w[4] ELSE bound
Min(a, b) == IF a < b THEN a ELSE b

(***************************************************************************)
(* Target memory and event payloads                                        *)
(***************************************************************************)
\* The byte the traced process holds at address a.
Mem(a) == (a * 7 + a \div 256) % 256

ZeroData == <<[src |-> -1, n |-> MAX_DATA_SIZE]>>

RECURSIVE DropBytes(_, _)
DropBytes(runs, k) ==
  IF k = 0 \/ runs = <<>> THEN runs
  ELSE IF runs[1].n <= k THEN DropBytes(Tail(runs), k - runs[1].n)
  ELSE <<[src |-> IF runs[1].src = -1 THEN -1 ELSE runs[1].src + k,
          n |-> runs[1].n - k]>> \o Tail(runs)

RECURSIVE ByteAt(_, _)
ByteAt(runs, i) ==
  IF i < runs[1].n
    THEN IF runs[1].src = -1 THEN 0 ELSE Mem(runs[1].src + i)
    ELSE ByteAt(Tail(runs), i - runs[1].n)

RECURSIVE DataSize(_)
DataSize(runs) == IF runs = <<>> THEN 0 ELSE runs[1].n + DataSize(Tail(runs))

\* bpf_probe_read(dst, size, src): size bytes from src on to the start of dst.
bpf_probe_read(dst, size, src) ==
  IF size = 0 THEN dst ELSE <<[src |-> src, n |-> size]>> \o DropBytes(dst, size)

ZeroEvent ==
  [timestamp_ns |-> 0, pid |-> 0, tid |-> 0, type |-> kSSLRead,
   data_len |-> 0, data |-> ZeroData]
ZeroBuffer == [content |-> 0, len |-> 0]

(***************************************************************************)
(* BPF maps                                                                *)
(***************************************************************************)
MapHas(m, k) == k \in DOMAIN m

\* Mutant: the map keeps the address of the value it was given, so every
\* record reads as the value written last.
MapUpdate_byref(m, k, v) ==
  IF k \in DOMAIN m \/ Cardinality(DOMAIN m) < MapCap
    THEN [x \in DOMAIN m \cup {k} |-> v]
    ELSE [x \in DOMAIN m |-> v]

\* Mutant: a new key in a full hash map takes the place of another key.
MapUpdate_evict(m, k, v) ==
  IF k \in DOMAIN m THEN [m EXCEPT ![k] = v]
  ELSE IF Cardinality(DOMAIN m) < MapCap THEN [x \in DOMAIN m \cup {k} |-> IF x = k THEN v ELSE m[x]]
  ELSE LET out == CHOOSE x \in DOMAIN m : TRUE
       IN [x \in (DOMAIN m \ {out}) \cup {k} |-> IF x = k THEN v ELSE m[x]]

\* map.update(&k, &v): BPF_ANY; a new key in a full hash map is refused.
MapUpdate(m, k, v) ==
  IF k \in DOMAIN m THEN [m EXCEPT ![k] = v]
  ELSE IF Cardinality(DOMAIN m) < MapCap THEN [x \in DOMAIN m \cup {k} |-> IF x = k THEN v ELSE m[x]]
  ELSE m

MapDelete(m, k) == [x \in DOMAIN m \ {k} |-> m[x]]

\* tls_events.perf_submit: the record is copied into the buffer, or lost when
\* the buffer has no room.
perf_submit(q, ev) == IF Len(q) < ChanCap THEN Append(q, ev) ELSE q

(***************************************************************************)
(* General helper functions                                                *)
(***************************************************************************)
\* Mutant: the filter compares the thread id, the lower half of pid_tgid.
TargetPid_tid(id) == Lo32(id) = TRACE_PID

\* The filter every probe starts with: pid = current_pid_tgid >> 32.
TargetPid(id) == Hi32(id) = TRACE_PID

\* Mutant: the maps are keyed by the process id alone.
MapKey_pid(id) == <<Hi32(id), 0>>

\* The key under which a probe stores and looks up its arguments.
MapKey(id) == id

\* data_buffer_heap.lookup(&kZero) on this cpu is not NULL.
HasEventSlot(cpu) == cpu \in DOMAIN data_buffer_heap

\* args_buffer_heap.lookup(&kZero) on this cpu is not NULL.
HasArgsSlot(cpu) == cpu \in DOMAIN args_buffer_heap

\* Mutant: the two halves of pid_tgid are exchanged.
create_ssl_data_event_swapped(cpu, id, now) ==
  [data_buffer_heap[cpu] EXCEPT !.timestamp_ns = now,
                                !.pid = Lo32(id),
                                !.tid = Hi32(id)]

\* The cpu's event slot, stamped with the time and the thread identity.
create_ssl_data_event(cpu, id, now) ==
  [data_buffer_heap[cpu] EXCEPT !.timestamp_ns = now,
                                !.pid = Hi32(id),
                                !.tid = Lo32(id)]

\* Mutant: the mask alone, without the comparison against MAX_DATA_SIZE.
ClampLen_mask(len) == BitAnd(len, MAX_DATA_SIZE - 1)

\* (len < MAX_DATA_SIZE ? (len & (MAX_DATA_SIZE - 1)) : MAX_DATA_SIZE)
ClampLen(len) ==
  IF len < MAX_DATA_SIZE THEN BitAnd(len, MAX_DATA_SIZE - 1) ELSE MAX_DATA_SIZE

\* Mutant: the length is stored and copied unclamped.
FillEvent_unclamped(event, type, len, buf) ==
  [ev   |-> [event EXCEPT !.type = type,
                          !.data_len = len,
                          !.data = bpf_probe_read(event.data, len, buf)],
   size |-> len,
   src  |-> buf]

\* The event record filled in and submitted for a length and a source buffer.
FillEvent(event, type, len, buf) ==
  LET data_len == ClampLen(len) IN
  [ev   |-> [event EXCEPT !.type = type,
                          !.data_len = data_len,
                          !.data = bpf_probe_read(event.data, data_len, buf)],
   size |-> data_len,
   src  |-> buf]

(***************************************************************************)
(* BPF syscall processing functions: << >> when nothing is submitted, else *)
(* <<[ev, size, src]>>: the record submitted and the copy that filled it.  *)
(***************************************************************************)
\* Mutant: a return of 0 bytes is taken for a failure (len <= 0).
process_SSL_data_nonpos(cpu, id, type, buf, rc, now) ==
  LET len == Int32Of(rc) IN
  IF len <= 0 THEN << >>
  ELSE IF ~HasEventSlot(cpu) THEN << >>
  ELSE <<FillEvent(create_ssl_data_event(cpu, id, now), type, len, buf)>>

process_SSL_data(cpu, id, type, buf, rc, now) ==
  LET len == Int32Of(rc) IN
  IF len < 0 THEN << >>
  ELSE IF ~HasEventSlot(cpu) THEN << >>
  ELSE <<FillEvent(create_ssl_data_event(cpu, id, now), type, len, buf)>>

\* Mutant: the payload is copied from the length pointer, not the data pointer.
process_SSL_ex_data_len(cpu, id, type, _buf, rc, words, now) ==
  LET is_success == Int32Of(rc) IN
  IF is_success = 0 THEN << >>
  ELSE IF ~HasEventSlot(cpu) THEN << >>
  ELSE LET length == Int32Of(words[_buf.len]) IN
       <<FillEvent(create_ssl_data_event(cpu, id, now), type, length, _buf.len)>>

\* Mutant: only a positive status counts as success.
process_SSL_ex_data_pos(cpu, id, type, _buf, rc, words, now) ==
  LET is_success == Int32Of(rc) IN
  IF is_success <= 0 THEN << >>
  ELSE IF ~HasEventSlot(cpu) THEN << >>
  ELSE LET length == Int32Of(words[_buf.len]) IN
       <<FillEvent(create_ssl_data_event(cpu, id, now), type, length, _buf.content)>>

\* words: the size_t the traced process holds at each length location when
\* the probe runs; *(_buf->len) is words[_buf.len].
process_SSL_ex_data(cpu, id, type, _buf, rc, words, now) ==
  LET is_success == Int32Of(rc) IN
  IF is_success = 0 THEN << >>
  ELSE IF ~HasEventSlot(cpu) THEN << >>
  ELSE LET length == Int32Of(words[_buf.len]) IN
       <<FillEvent(create_ssl_data_event(cpu, id, now), type, length, _buf.content)>>

\* Mutant: the submission waits until the reader has made room.
Publish_wait(cpu, r) ==
  /\ r # << >> => Len(tls_events) < ChanCap
  /\ data_buffer_heap' =
       IF r = << >> THEN data_buffer_heap
       ELSE [data_buffer_heap EXCEPT ![cpu] = r[1].ev]
  /\ tls_events' = IF r = << >> THEN tls_events ELSE Append(tls_events, r[1].ev)

\* The effect of a processing function on the cpu's slot and on tls_events.
Publish(cpu, r) ==
  /\ data_buffer_heap' =
       IF r = << >> THEN data_buffer_heap
       ELSE [data_buffer_heap EXCEPT ![cpu] = r[1].ev]
  /\ tls_events' = IF r = << >> THEN tls_events ELSE perf_submit(tls_events, r[1].ev)

\* What a probe invocation leaves in last.
Record(op, id, cpu, found, stored, rc, n, args, r) ==
  [op |-> op, id |-> id, cpu |-> cpu, passed |-> TargetPid(id),
   found |-> found, stored |-> stored, submit |-> r # << >>,
   rc |-> rc, n |-> n, args |-> args,
   copy |-> IF r = << >> THEN << >> ELSE <<r[1].size, r[1].src>>]

Skipped(op, id, cpu, args) ==
  Record(op, id, cpu, FALSE, FALSE, WordOf(0), WordOf(0), args, << >>)

(***************************************************************************)
(* BPF probe function entry-points                                         *)
(***************************************************************************)
probe_entry_SSL_write(id, buf) ==
  IF ~TargetPid(id)
    THEN /\ last' = Skipped("probe_entry_SSL_write", id, 0, << >>)
         /\ UNCHANGED progVars
    ELSE /\ active_ssl_write_args_map' =
              MapUpdate(active_ssl_write_args_map, MapKey(id), buf)
         /\ last' = Record("probe_entry_SSL_write", id, 0, FALSE,
                           MapHas(active_ssl_write_args_map', MapKey(id)),
                           WordOf(0), WordOf(0), <<buf>>, << >>)
         /\ UNCHANGED <<active_ssl_read_args_map, active_ssl_readex_buf_len_map,
                        data_buffer_heap, args_buffer_heap, tls_events>>

probe_ret_SSL_write(id, cpu, rc) ==
  IF ~TargetPid(id)
    THEN /\ last' = Skipped("probe_ret_SSL_write", id, cpu, << >>)
         /\ UNCHANGED progVars
    ELSE /\ LET found == MapHas(active_ssl_write_args_map, MapKey(id))
                r == IF found
                       THEN process_SSL_data(cpu, id, kSSLWrite,
                              active_ssl_write_args_map[MapKey(id)], rc, ktime)
                       ELSE << >>
            IN /\ Publish(cpu, r)
               /\ last' = Record("probe_ret_SSL_write", id, cpu, found, FALSE, rc, WordOf(0),
                                 IF found THEN <<active_ssl_write_args_map[MapKey(id)]>>
                                          ELSE << >>, r)
         /\ active_ssl_write_args_map' = MapDelete(active_ssl_write_args_map, MapKey(id))
         /\ UNCHANGED <<active_ssl_read_args_map, active_ssl_readex_buf_len_map,
                        args_buffer_heap>>

probe_entry_SSL_read(id, buf) ==
  IF ~TargetPid(id)
    THEN /\ last' = Skipped("probe_entry_SSL_read", id, 0, << >>)
         /\ UNCHANGED progVars
    ELSE /\ active_ssl_read_args_map' =
              MapUpdate(active_ssl_read_args_map, MapKey(id), buf)
         /\ last' = Record("probe_entry_SSL_read", id, 0, FALSE,
                           MapHas(active_ssl_read_args_map', MapKey(id)),
                           WordOf(0), WordOf(0), <<buf>>, << >>)
         /\ UNCHANGED <<active_ssl_write_args_map, active_ssl_readex_buf_len_map,
                        data_buffer_heap, args_buffer_heap, tls_events>>

probe_ret_SSL_read(id, cpu, rc) ==
  IF ~TargetPid(id)
    THEN /\ last' = Skipped("probe_ret_SSL_read", id, cpu, << >>)
         /\ UNCHANGED progVars
    ELSE /\ LET found == MapHas(active_ssl_read_args_map, MapKey(id))
                r == IF found
                       THEN process_SSL_data(cpu, id, kSSLRead,
                              active_ssl_read_args_map[MapKey(id)], rc, ktime)
                       ELSE << >>
            IN /\ Publish(cpu, r)
               /\ last' = Record("probe_ret_SSL_read", id, cpu, found, FALSE, rc, WordOf(0),
                                 IF found THEN <<active_ssl_read_args_map[MapKey(id)]>>
                                          ELSE << >>, r)
         /\ active_ssl_read_args_map' = MapDelete(active_ssl_read_args_map, MapKey(id))
         /\ UNCHANGED <<active_ssl_write_args_map, active_ssl_readex_buf_len_map,
                        args_buffer_heap>>

probe_entry_SSL_read_ex(id, cpu, buf, buf_len) ==
  IF ~TargetPid(id)
    THEN /\ last' = Skipped("probe_entry_SSL_read_ex", id, cpu, << >>)
         /\ UNCHANGED progVars
    ELSE IF ~HasArgsSlot(cpu)
    THEN /\ last' = Skipped("probe_entry_SSL_read_ex", id, cpu, <<buf, buf_len>>)
         /\ UNCHANGED progVars
    ELSE /\ args_buffer_heap' =
              [args_buffer_heap EXCEPT ![cpu] = [content |-> buf, len |-> buf_len]]
         /\ active_ssl_readex_buf_len_map' =
              MapUpdate(active_ssl_readex_buf_len_map, MapKey(id), args_buffer_heap'[cpu])
         /\ last' = Record("probe_entry_SSL_read_ex", id, cpu, FALSE,
                           MapHas(active_ssl_readex_buf_len_map', MapKey(id)),
                           WordOf(0), WordOf(0), <<buf, buf_len>>, << >>)
         /\ UNCHANGED <<active_ssl_read_args_map, active_ssl_write_args_map,
                        data_buffer_heap, tls_events>>

\* The delete that ends probe_ret_SSL_read_ex: <<read map, readex map>> after it.
RetReadExDelete(readMap, readexMap, key) ==
  <<MapDelete(readMap, key), readexMap>>

probe_ret_SSL_read_ex(id, cpu, rc, words) ==
  IF ~TargetPid(id)
    THEN /\ last' = Skipped("probe_ret_SSL_read_ex", id, cpu, << >>)
         /\ UNCHANGED progVars
    ELSE /\ LET found == MapHas(active_ssl_readex_buf_len_map, MapKey(id))
                _buf == active_ssl_readex_buf_len_map[MapKey(id)]
                r == IF found
                       THEN process_SSL_ex_data(cpu, id, kSSLRead, _buf, rc, words, ktime)
                       ELSE << >>
            IN /\ Publish(cpu, r)
               /\ last' = Record("probe_ret_SSL_read_ex", id, cpu, found, FALSE, rc,
                                 IF found THEN words[_buf.len] ELSE WordOf(0),
                                 IF found THEN <<_buf.content, _buf.len>> ELSE << >>, r)
         /\ LET after == RetReadExDelete(active_ssl_read_args_map,
                                         active_ssl_readex_buf_len_map, MapKey(id))
            IN /\ active_ssl_read_args_map' = after[1]
               /\ active_ssl_readex_buf_len_map' = after[2]
         /\ UNCHANGED <<active_ssl_write_args_map, args_buffer_heap>>

\* The user-space reader of tls_events takes the oldest record.
perf_reader ==
  /\ tls_events # << >>
  /\ tls_events' = Tail(tls_events)
  /\ last' = Skipped("perf_reader", <<0, 0>>, 0, << >>)
  /\ UNCHANGED <<active_ssl_read_args_map, active_ssl_write_args_map,
                 active_ssl_readex_buf_len_map, data_buffer_heap, args_buffer_heap,
                 ktime, armed, nSuccess, nPublished, starved, track, crowded>>

(***************************************************************************)
(* The traced process: its threads, the calls they make, the observers     *)
(***************************************************************************)
ThreadA == <<TRACE_PID, 71>>
ThreadB == <<TRACE_PID, 72>>
ThreadC == <<TRACE_PID, 73>>
\* A thread of another process, whose thread id is the traced process id.
Foreign == <<71, TRACE_PID>>
\* One more thread of the traced process than a correlation map holds.
Crowd == {<<TRACE_PID, 70 + i>> : i \in 1..(MapCap + 1)}
AllThreads == {ThreadA, ThreadB, ThreadC, Foreign} \cup Crowd
Shapes == {"write", "read", "read_ex"}

Bufs == {8192, 40960}
\* SSL_read_ex arguments: <<buf, readbytes>>.
ExArgs == {<<8192, 1024>>, <<40960, 2048>>}
LenPtrs == {a[2] : a \in ExArgs}
\* Every length location holds the same word n.
AllHold(n) == [p \in LenPtrs |-> n]
\* The two length locations hold different lengths.
OwnLengths == [p \in LenPtrs |-> IF p = 1024 THEN WordOf(10) ELSE WordOf(20)]
CPUs == {0, 1}

\* Return registers: a length or error of SSL_write/SSL_read, a status of SSL_read_ex.
RcFail == <<0, 0, 65535, 65535>>
RcLens == {WordOf(10), RcFail}
RcStatus == {WordOf(0), WordOf(1)}

\* The correlation map of a call shape.
MapOf(s) ==
  IF s = "write" THEN active_ssl_write_args_map
  ELSE IF s = "read" THEN active_ssl_read_args_map
  ELSE active_ssl_readex_buf_len_map

Idle(id) == \A s \in Shapes : armed[<<s, id>>] = << >>
InFlight(s, id) == armed[<<s, id>>] # << >>

\* A return that indicates success: a length >= 0, or a status # 0.
Succeeded(s, rc) == IF s = "read_ex" THEN Int32Of(rc) # 0 ELSE Int32Of(rc) >= 0

\* The traced thread enters a call of shape s: the entry probe runs.
Enter(s, id, args, paired, bound) ==
  /\ ktime < bound
  /\ paired => Idle(id)
  /\ armed' = [armed EXCEPT ![<<s, id>>] = args]
  /\ ktime' = ktime + 1

\* The traced thread returns from a call of shape s: the return probe runs.
Leave(s, id, paired, bound) ==
  /\ ktime < bound
  /\ paired => InFlight(s, id)
  /\ armed' = [armed EXCEPT ![<<s, id>>] = << >>]
  /\ ktime' = ktime + 1

\* Target threads with a call of shape s in flight.
InFlightSet(a, s) == {t \in DOMAIN starved : Hi32(t) = TRACE_PID /\ a[<<s, t>>] # << >>}

\* The map of shape s has no room for a new key id.
AtCapacity(s, id) ==
  id \notin DOMAIN MapOf(s) /\ Cardinality(DOMAIN MapOf(s)) >= MapCap

\* The history observers: how many entries of the shape the thread has made
\* since its last return of it (2 for two or more), whether the latest entry
\* met a map at capacity, whether the previous return followed two entries,
\* and whether it followed an entry that met a map at capacity.
TrackEntry(s, id) ==
  /\ track' = [track EXCEPT ![<<s, id>>] =
                 [entries |-> Min(@.entries + 1, 2),
                  refused |-> Hi32(id) = TRACE_PID /\ AtCapacity(s, id),
                  after2 |-> FALSE, lost |-> FALSE]]
  /\ crowded' = [crowded EXCEPT ![s] = @ \/ Cardinality(InFlightSet(armed', s)) > MapCap]

TrackReturn(s, id) ==
  /\ track' = [track EXCEPT ![<<s, id>>] =
                 [entries |-> 0, refused |-> FALSE, after2 |-> @.entries = 2,
                  lost |-> @.refused]]
  /\ UNCHANGED crowded

\* The counting observers, kept for calls made in entry/return pairs.
TallyEntry(id, paired) ==
  IF paired
    THEN /\ starved' = [starved EXCEPT ![id] = @ \/ ~last'.stored]
         /\ UNCHANGED <<nSuccess, nPublished>>
    ELSE UNCHANGED countVars

TallyReturn(s, id, cpu, rc, paired) ==
  IF paired
    THEN /\ nSuccess' = [nSuccess EXCEPT ![id] = @ + IF Succeeded(s, rc) THEN 1 ELSE 0]
         /\ nPublished' = [nPublished EXCEPT ![id] = @ + IF last'.submit THEN 1 ELSE 0]
         /\ starved' = [starved EXCEPT ![id] = @ \/ (Succeeded(s, rc) /\ ~HasEventSlot(cpu))]
    ELSE UNCHANGED countVars

\* One probe invocation, its inputs drawn from the given sets.
Step(T, C, B, E, R, X, W, paired, bound) ==
  \/ \E id \in T, buf \in B :
       /\ Enter("write", id, <<buf>>, paired, bound)
       /\ probe_entry_SSL_write(id, buf)
       /\ TallyEntry(id, paired)
       /\ TrackEntry("write", id)
  \/ \E id \in T, cpu \in C, rc \in R :
       /\ Leave("write", id, paired, bound)
       /\ probe_ret_SSL_write(id, cpu, rc)
       /\ TallyReturn("write", id, cpu, rc, paired)
       /\ TrackReturn("write", id)
  \/ \E id \in T, buf \in B :
       /\ Enter("read", id, <<buf>>, paired, bound)
       /\ probe_entry_SSL_read(id, buf)
       /\ TallyEntry(id, paired)
       /\ TrackEntry("read", id)
  \/ \E id \in T, cpu \in C, rc \in R :
       /\ Leave("read", id, paired, bound)
       /\ probe_ret_SSL_read(id, cpu, rc)
       /\ TallyReturn("read", id, cpu, rc, paired)
       /\ TrackReturn("read", id)
  \/ \E id \in T, cpu \in C, a \in E :
       /\ Enter("read_ex", id, a, paired, bound)
       /\ probe_entry_SSL_read_ex(id, cpu, a[1], a[2])
       /\ TallyEntry(id, paired)
       /\ TrackEntry("read_ex", id)
  \/ \E id \in T, cpu \in C, rc \in X, words \in W :
       /\ Leave("read_ex", id, paired, bound)
       /\ probe_ret_SSL_read_ex(id, cpu, rc, words)
       /\ TallyReturn("read_ex", id, cpu, rc, paired)
       /\ TrackReturn("read_ex", id)

EmptyMap == [x \in {} |-> 0]

Init ==
  /\ active_ssl_read_args_map = EmptyMap
  /\ active_ssl_write_args_map = EmptyMap
  /\ active_ssl_readex_buf_len_map = EmptyMap
  /\ data_buffer_heap = [c \in CPUs |-> ZeroEvent]
  /\ args_buffer_heap = [c \in CPUs |-> ZeroBuffer]
  /\ tls_events = << >>
  /\ ktime = 0
  /\ last = Skipped("attach", <<0, 0>>, 0, << >>)
  /\ armed = [k \in Shapes \X AllThreads |-> << >>]
  /\ nSuccess = [t \in AllThreads |-> 0]
  /\ nPublished = [t \in AllThreads |-> 0]
  /\ starved = [t \in AllThreads |-> FALSE]
  /\ track = [k \in Shapes \X AllThreads |->
               [entries |-> 0, refused |-> FALSE, after2 |-> FALSE, lost |-> FALSE]]
  /\ crowded = [s \in Shapes |-> FALSE]

\* Any probe of the traced thread or of a foreign thread at any time: calls
\* may nest, and a probe may be attached while a call is in flight.
Next ==
  \/ Step({ThreadA, Foreign}, {0}, Bufs, ExArgs, RcLens, RcStatus, {AllHold(WordOf(10))},
          FALSE, MaxCalls)
  \/ perf_reader

Spec == Init /\ [][Next]_vars

\* Two threads of the traced process on two processors.
NextTwo ==
  \/ Step({ThreadA, ThreadB}, CPUs, Bufs, ExArgs, {WordOf(10)}, {WordOf(1)}, {OwnLengths},
          FALSE, MaxCallsTwo)
  \/ perf_reader

SpecTwo == Init /\ [][NextTwo]_vars

\* One thread, one processor: every shape of return register and of length.
RcWide ==
  {WordOf(0), WordOf(1), WordOf(10), WordOf(4095), WordOf(4096), WordOf(4097),
   <<0, 0, 32767, 65535>>, RcFail, <<0, 0, 32768, 0>>, <<1, 0, 0, 10>>}
StatusWide == {WordOf(0), WordOf(1), RcFail, <<0, 1, 0, 0>>}
LengthsWide ==
  {WordOf(0), WordOf(10), WordOf(4095), WordOf(4096), WordOf(4097),
   <<0, 0, 32767, 65535>>, <<0, 0, 32768, 0>>, <<0, 0, 65535, 65535>>,
   <<0, 1, 0, 10>>, <<65535, 65535, 65535, 65535>>}

NextData ==
  \/ Step({ThreadA}, {0}, {8192}, {<<8192, 1024>>}, RcWide, StatusWide,
          {AllHold(n) : n \in LengthsWide}, FALSE, MaxCallsData)
  \/ perf_reader

SpecData == Init /\ [][NextData]_vars

\* Every thread makes its calls one after the other: an entry, then the
\* return of the same shape, shapes freely mixed from call to call.
NextPaired ==
  \/ Step({ThreadA, ThreadB, ThreadC}, {0}, {8192}, {<<8192, 1024>>},
          {WordOf(0), WordOf(10), RcFail}, RcStatus, {AllHold(WordOf(10))},
          TRUE, MaxCallsPaired)
  \/ perf_reader

SpecPaired == Init /\ [][NextPaired]_vars

\* One thread of the traced process and a foreign thread on two processors:
\* returns with and without a record, every kind of return status.
NextReturns ==
  \/ Step({ThreadA, Foreign}, CPUs, {8192}, {<<8192, 1024>>}, RcLens,
          {WordOf(0), WordOf(1), RcFail}, {AllHold(WordOf(10))}, FALSE, MaxCallsReturns)
  \/ perf_reader

SpecReturns == Init /\ [][NextReturns]_vars

\* More threads than a correlation map holds, their probes in any order.
NextFull ==
  \/ Step(Crowd, {0}, {8192}, {<<8192, 1024>>}, {WordOf(10)}, {WordOf(1)},
          {AllHold(WordOf(10))}, FALSE, MaxCallsFull)
  \/ perf_reader

SpecFull == Init /\ [][NextFull]_vars

\* The same threads, each making its calls one after the other.
NextWait ==
  \/ Step(Crowd, {0}, {8192}, {<<8192, 1024>>}, {WordOf(10)}, {WordOf(1)},
          {AllHold(WordOf(10))}, TRUE, MaxCallsFull)
  \/ perf_reader

SpecWait == Init /\ [][NextWait]_vars

(***************************************************************************)
(* Claims                                                                  *)
(***************************************************************************)
EntryOps == {"probe_entry_SSL_write", "probe_entry_SSL_read", "probe_entry_SSL_read_ex"}
RetOps == {"probe_ret_SSL_write", "probe_ret_SSL_read", "probe_ret_SSL_read_ex"}
ProbeOps == EntryOps \cup RetOps
ShapeOf(op) ==
  IF op \in {"probe_entry_SSL_write", "probe_ret_SSL_write"} THEN "write"
  ELSE IF op \in {"probe_entry_SSL_read", "probe_ret_SSL_read"} THEN "read"
  ELSE "read_ex"
\* The last invocation was a probe of the traced process.
LastTraced == last.op \in ProbeOps /\ Hi32(last.id) = TRACE_PID

\* C2: after the return probe of shape S has run on a thread of the traced
\* process, that thread has no pending record in the map of shape S, whether
\* or not a record existed and whatever the return value.
C2_ReturnClearsPending ==
  (LastTraced /\ last.op \in RetOps) => last.id \notin DOMAIN MapOf(ShapeOf(last.op))

\* C3: a probe of one shape leaves the maps of the two other shapes unchanged.
C3_ShapesIndependent ==
  [][(last'.op \in ProbeOps) =>
       /\ ShapeOf(last'.op) # "write" => UNCHANGED active_ssl_write_args_map
       /\ ShapeOf(last'.op) # "read" => UNCHANGED active_ssl_read_args_map
       /\ ShapeOf(last'.op) # "read_ex" => UNCHANGED active_ssl_readex_buf_len_map]_vars

\* C7: a return probe of shape S on a thread of the traced process with no
\* entry probe of shape S on that thread since its previous return of S
\* publishes nothing and leaves the map of shape S without the thread's key.
C7_ReturnWithoutEntry ==
  [][(last'.op \in RetOps /\ Hi32(last'.id) = TRACE_PID
        /\ ~InFlight(ShapeOf(last'.op), last'.id)) =>
       /\ ~last'.submit
       /\ tls_events' = tls_events
       /\ IF ShapeOf(last'.op) = "write" THEN last'.id \notin DOMAIN active_ssl_write_args_map'
          ELSE IF ShapeOf(last'.op) = "read" THEN last'.id \notin DOMAIN active_ssl_read_args_map'
          ELSE last'.id \notin DOMAIN active_ssl_readex_buf_len_map']_vars

\* C8: a probe run by a thread whose process id is not TRACE_PID changes no
\* correlation map and publishes nothing.
C8_ForeignPidIgnored ==
  [][(last'.op \in ProbeOps /\ Hi32(last'.id) # TRACE_PID) =>
       /\ UNCHANGED <<active_ssl_read_args_map, active_ssl_write_args_map,
                      active_ssl_readex_buf_len_map, tls_events>>
       /\ ~last'.submit]_vars

\* C8 witness: a foreign thread has run a return probe while the traced
\* thread's record of that shape is pending.
C8_Witness ==
  /\ last.op = "probe_ret_SSL_write"
  /\ last.id = Foreign
  /\ ThreadA \in DOMAIN active_ssl_write_args_map

\* C6: the event a thread's return publishes is built from the pointers that
\* thread passed at its own entry of that shape.
C6_OwnArguments ==
  [][(last'.op \in RetOps /\ last'.submit /\ InFlight(ShapeOf(last'.op), last'.id)) =>
       /\ last'.args = armed[<<ShapeOf(last'.op), last'.id>>]
       /\ last'.copy[2] = armed[<<ShapeOf(last'.op), last'.id>>][1]
       /\ data_buffer_heap'[last'.cpu].tid = Lo32(last'.id)]_vars

\* C6 witness: thread A's read_ex return has published from A's pointers
\* while thread B's record, with other pointers, is pending in the same map.
C6_Witness ==
  /\ last.op = "probe_ret_SSL_read_ex"
  /\ last.id = ThreadA
  /\ last.submit
  /\ ThreadB \in DOMAIN active_ssl_readex_buf_len_map
  /\ active_ssl_readex_buf_len_map[ThreadB].content # last.args[1]
  /\ active_ssl_readex_buf_len_map[ThreadB].len # last.args[2]

\* C1 as stated: with entries and returns paired on each thread, the events
\* published for a thread are as many as its returns that indicated success.
C1_EventsEqualSuccesses ==
  \A t \in {ThreadA, ThreadB, ThreadC} : nPublished[t] = nSuccess[t]

\* C1 amended: the same, for a thread none of whose captures was dropped for
\* lack of room (a full map at entry, no event slot at a successful return).
C1_EventsEqualSuccessesUnlessStarved ==
  \A t \in {ThreadA, ThreadB, ThreadC} : ~starved[t] => nPublished[t] = nSuccess[t]

\* C1 witness: thread A has completed calls of different shapes, each
\* published, and now returns from another one.
C1_Witness ==
  /\ ~starved[ThreadA]
  /\ nSuccess[ThreadA] = 3
  /\ nPublished[ThreadA] = 3
  /\ last.op = "probe_ret_SSL_read"
  /\ last.id = ThreadA
  /\ ThreadA \in DOMAIN active_ssl_readex_buf_len_map

\* C4: for the write and read shapes with a pending record, a return value
\* L >= 0 publishes an event whose data_len is min(L, 4096), and a return
\* value L < 0 publishes nothing.
C4_LengthClamp ==
  (LastTraced /\ last.op \in {"probe_ret_SSL_write", "probe_ret_SSL_read"} /\ last.found) =>
    IF Int32Of(last.rc) < 0
      THEN ~last.submit
      ELSE HasEventSlot(last.cpu) =>
             /\ last.submit
             /\ data_buffer_heap[last.cpu].data_len = Min(Int32Of(last.rc), 4096)

\* C4 witness: a read returned the largest 32-bit length and was published
\* with data_len 4096.
C4_Witness ==
  /\ last.op = "probe_ret_SSL_read"
  /\ last.found
  /\ last.submit
  /\ Int32Of(last.rc) = 2147483647
  /\ data_buffer_heap[last.cpu].data_len = 4096

\* C5: for the read-with-count shape, a successful return with a pending
\* record publishes an event whose data_len is min(N, MAX_DATA_SIZE), N the
\* size_t at the length output location.
C5_OutParamClamp ==
  (LastTraced /\ last.op = "probe_ret_SSL_read_ex" /\ last.found
     /\ Int32Of(last.rc) # 0 /\ HasEventSlot(last.cpu)) =>
    /\ last.submit
    /\ data_buffer_heap[last.cpu].data_len = MinWord(last.n, MAX_DATA_SIZE)

\* C9: a read-with-count return with non-zero status and a pending record
\* publishes one event of kind read whose first data_len payload bytes are
\* the first data_len bytes of the recorded data buffer; a return with
\* status 0 publishes nothing.
C9_ReadExEvent ==
  (LastTraced /\ last.op = "probe_ret_SSL_read_ex" /\ last.found) =>
    IF Int32Of(last.rc) = 0
      THEN ~last.submit
      ELSE HasEventSlot(last.cpu) =>
             LET ev == data_buffer_heap[last.cpu] IN
             /\ last.submit
             /\ ev.type = kSSLRead
             /\ \A i \in 0..(ev.data_len - 1) : ByteAt(ev.data, i) = Mem(last.args[1] + i)
             /\ Len(tls_events) <= ChanCap
             /\ tls_events # << >>

\* C9 witness: a read-with-count return with length 10 has been published.
C9_Witness ==
  /\ last.op = "probe_ret_SSL_read_ex"
  /\ last.submit
  /\ last.n = WordOf(10)
  /\ data_buffer_heap[last.cpu].data_len = 10
  /\ tls_events = <<data_buffer_heap[last.cpu]>>

\* C10: every published event has 0 <= data_len <= MAX_DATA_SIZE, and the
\* copy that filled it read data_len bytes from the recorded buffer pointer
\* and left the payload at its MAX_DATA_SIZE bytes.
C10_CopyInBounds ==
  /\ \A i \in 1..Len(tls_events) :
       /\ tls_events[i].data_len \in 0..MAX_DATA_SIZE
       /\ DataSize(tls_events[i].data) = MAX_DATA_SIZE
  /\ last.submit =>
       LET ev == data_buffer_heap[last.cpu] IN
       /\ ev.data_len \in 0..MAX_DATA_SIZE
       /\ last.copy = <<ev.data_len, last.args[1]>>
       /\ DataSize(ev.data) = MAX_DATA_SIZE

\* C10 witness: a call that transferred more than MAX_DATA_SIZE bytes was
\* published with a copy of MAX_DATA_SIZE bytes.
C10_Witness ==
  /\ last.submit
  /\ last.op = "probe_ret_SSL_read_ex"
  /\ ~WordBelow(last.n, MAX_DATA_SIZE + 1)
  /\ last.copy[1] = MAX_DATA_SIZE

\* C11: a return probe hands at most one event to tls_events, and hands one
\* exactly when the process id matches, the thread's record is in the map of
\* the probe's shape, the return value indicates success and the processor's
\* event slot exists; otherwise tls_events is left as it was.
C11_PublishIff ==
  [][(last'.op \in RetOps) =>
       LET s == ShapeOf(last'.op)
           ok == /\ Hi32(last'.id) = TRACE_PID
                 /\ last'.id \in DOMAIN MapOf(s)
                 /\ Succeeded(s, last'.rc)
                 /\ HasEventSlot(last'.cpu)
       IN /\ last'.submit <=> ok
          /\ ~ok => tls_events' = tls_events
          /\ ok => tls_events' = IF Len(tls_events) < ChanCap
                                   THEN Append(tls_events, data_buffer_heap'[last'.cpu])
                                   ELSE tls_events]_vars

\* C11 witness: a read-with-count return with a negative, non-zero status and
\* a pending record has published its one event.
C11_Witness ==
  /\ last.op = "probe_ret_SSL_read_ex"
  /\ last.id = ThreadA
  /\ last.rc = RcFail
  /\ last.found
  /\ last.submit
  /\ tls_events = <<data_buffer_heap[last.cpu]>>

\* The value a map of shape s holds for the arguments of an entry.
RecordOf(s, args) ==
  IF s = "read_ex" THEN [content |-> args[1], len |-> args[2]] ELSE args[1]
\* The map of shape s after the step.
MapOfNext(s) ==
  IF s = "write" THEN active_ssl_write_args_map'
  ELSE IF s = "read" THEN active_ssl_read_args_map'
  ELSE active_ssl_readex_buf_len_map'

\* C12: a second entry probe of a shape on a thread whose record of that
\* shape is pending replaces the record and adds none; the return that
\* follows two entries finds the arguments of the most recent entry; and the
\* return after that one, with no entry in between, finds no record and
\* publishes nothing.
C12_SecondEntryReplaces ==
  [][(last'.op \in ProbeOps /\ Hi32(last'.id) = TRACE_PID) =>
       LET s == ShapeOf(last'.op)
           k == <<s, last'.id>>
       IN /\ (last'.op \in EntryOps /\ track[k].entries >= 1 /\ last'.id \in DOMAIN MapOf(s)) =>
               /\ DOMAIN MapOfNext(s) = DOMAIN MapOf(s)
               /\ MapOfNext(s)[last'.id] = RecordOf(s, last'.args)
          /\ (last'.op \in RetOps /\ track[k].entries = 2) =>
               /\ last'.found
               /\ last'.args = armed[k]
          /\ (last'.op \in RetOps /\ track[k].entries = 0 /\ track[k].after2) =>
               /\ ~last'.found
               /\ ~last'.submit
               /\ tls_events' = tls_events]_vars

\* The kind an event of a call shape carries.
KindOf(s) == IF s = "write" THEN kSSLWrite ELSE kSSLRead
\* The event carries the identity of thread id and the kind of shape s.
Carries(ev, id, s) ==
  ev.pid = Hi32(id) /\ ev.tid = Lo32(id) /\ ev.type = KindOf(s)

\* C13: the event a return probe publishes has pid = upper 32 bits and
\* tid = lower 32 bits of the running thread's pid_tgid, and kind write for
\* the write shape, read for the read and the read-with-count shapes; so has
\* the record that reaches tls_events.
C13_EventIdentity ==
  [][(last'.op \in RetOps /\ last'.submit) =>
       /\ Carries(data_buffer_heap'[last'.cpu], last'.id, ShapeOf(last'.op))
       /\ Len(tls_events) < ChanCap =>
            /\ Len(tls_events') = Len(tls_events) + 1
            /\ Carries(tls_events'[Len(tls_events')], last'.id, ShapeOf(last'.op))]_vars

\* C13 witness: thread B's read-with-count return on processor 1 has put an
\* event of kind read with B's identity into tls_events.
C13_Witness ==
  /\ last.op = "probe_ret_SSL_read_ex"
  /\ last.id = ThreadB
  /\ last.cpu = 1
  /\ last.submit
  /\ tls_events = <<data_buffer_heap[1]>>
  /\ tls_events[1].pid = TRACE_PID
  /\ tls_events[1].tid = 72
  /\ tls_events[1].type = kSSLRead

\* C14: an entry probe whose map is at capacity, the thread's key not in it,
\* stores nothing and leaves every map and tls_events as they were; the
\* return of that call finds no record and publishes nothing.
C14_FullMapDrops ==
  [][(last'.op \in ProbeOps /\ Hi32(last'.id) = TRACE_PID) =>
       LET s == ShapeOf(last'.op)
           k == <<s, last'.id>>
       IN /\ (last'.op \in EntryOps /\ AtCapacity(s, last'.id)) =>
               /\ ~last'.stored
               /\ UNCHANGED <<active_ssl_read_args_map, active_ssl_write_args_map,
                              active_ssl_readex_buf_len_map, tls_events>>
          /\ (last'.op \in RetOps /\ track[k].refused) =>
               /\ ~last'.found
               /\ ~last'.submit
               /\ tls_events' = tls_events]_vars

\* C14 witness: a thread whose read-with-count entry met a full map has
\* returned with success, found no record, and the map still holds the
\* other threads' records.
C14_Witness ==
  /\ last.op = "probe_ret_SSL_read_ex"
  /\ track[<<"read_ex", last.id>>].lost
  /\ Int32Of(last.rc) # 0
  /\ ~last.found
  /\ ~last.submit
  /\ Cardinality(DOMAIN active_ssl_readex_buf_len_map) = MapCap
  /\ last.id \notin DOMAIN active_ssl_readex_buf_len_map

\* C16: in every reachable state each probe can run, for every thread and
\* for a failing and a succeeding return value: with tls_events full, with a
\* map at capacity, with or without a pending record; and tls_events never
\* holds more than its capacity, a submission to a full buffer being dropped.
C16_HandlersNeverWait ==
  /\ Len(tls_events) <= ChanCap
  /\ \A id \in Crowd \cup {Foreign}, cpu \in {0} :
       /\ ENABLED probe_entry_SSL_write(id, 8192)
       /\ ENABLED probe_entry_SSL_read(id, 8192)
       /\ ENABLED probe_entry_SSL_read_ex(id, cpu, 8192, 1024)
       /\ \A rc \in {WordOf(MAX_DATA_SIZE), RcFail} :
            /\ ENABLED probe_ret_SSL_write(id, cpu, rc)
            /\ ENABLED probe_ret_SSL_read(id, cpu, rc)
            /\ ENABLED probe_ret_SSL_read_ex(id, cpu, rc, AllHold(WordOf(MAX_DATA_SIZE)))

\* C16 witness: with tls_events full and the read-with-count map at
\* capacity, a thread's entry probe has run and stored nothing.
C16_Witness ==
  /\ Len(tls_events) = ChanCap
  /\ last.op = "probe_entry_SSL_read_ex"
  /\ track[<<"read_ex", last.id>>].refused
  /\ ~last.stored
  /\ Cardinality(DOMAIN active_ssl_readex_buf_len_map) = MapCap

\* C17: for each shape, as long as the threads of the traced process that
\* are between an entry and its return of that shape have never been more
\* than the map holds, every entry of that shape stores its record and every
\* successful return of that shape publishes an event.
C17_NoCapacityLeak ==
  [][(last'.op \in ProbeOps /\ Hi32(last'.id) = TRACE_PID) =>
       LET s == ShapeOf(last'.op)
       IN /\ (last'.op \in EntryOps /\ ~crowded'[s]) => last'.stored
          /\ (last'.op \in RetOps /\ ~crowded[s] /\ Succeeded(s, last'.rc)) =>
               last'.submit]_vars

\* C18: a probe leaves the pending read-with-count records of all other
\* threads as they were, although it may overwrite the processor's argument
\* slot they were copied from; and it leaves every record already in
\* tls_events as it was, although it may overwrite the processor's event slot.
C18_ScratchReuseKeepsCopies ==
  [][(last'.op \in ProbeOps) =>
       /\ \A t \in DOMAIN active_ssl_readex_buf_len_map :
            t # last'.id =>
              /\ t \in DOMAIN active_ssl_readex_buf_len_map'
              /\ active_ssl_readex_buf_len_map'[t] = active_ssl_readex_buf_len_map[t]
       /\ \A i \in 1..Len(tls_events) :
            /\ i <= Len(tls_events')
            /\ tls_events'[i] = tls_events[i]]_vars

\* C18 witness: thread B has entered and returned from a read-with-count
\* call on processor 0, overwriting both slots of that processor, while
\* thread A's record and A's published event, both built in the same slots,
\* are still what A made them.
C18_Witness ==
  /\ last.op = "probe_ret_SSL_read_ex"
  /\ last.id = ThreadB
  /\ last.cpu = 0
  /\ last.submit
  /\ args_buffer_heap[1] = ZeroBuffer
  /\ data_buffer_heap[1] = ZeroEvent
  /\ ThreadA \in DOMAIN active_ssl_readex_buf_len_map
  /\ active_ssl_readex_buf_len_map[ThreadA] # args_buffer_heap[0]
  /\ args_buffer_heap[0] = [content |-> last.args[1], len |-> last.args[2]]
  /\ Len(tls_events) = 1
  /\ tls_events[1].tid = Lo32(ThreadA)
  /\ data_buffer_heap[0].tid = Lo32(ThreadB)

====
